---- MODULE Spec2Model ----
(***************************************************************************)
(* cchunker / multicchunker: content defined chunking of stdin, one        *)
(* subprocess per chunk.                                                   *)
(*                                                                         *)
(*   mode = "reduce"  models cmd/multicchunker/main.go (the reduction      *)
(*                    driver: levels of chunking over the previous level's *)
(*                    summary),                                            *)
(*   mode = "single"  models the cchunker command (unnamed/part_000, the   *)
(*                    single level driver).                                *)
(*                                                                         *)
(* Byte streams are sequences of pieces.  A piece is one write: it has a   *)
(* byte length and a number of line terminators, and is either literal     *)
(* text (the iteration line), the data on stdin, or the output of the      *)
(* processor run on one chunk.  Lengths are real byte counts, so the       *)
(* chunk size profiles keep the values of the source.                      *)
(*                                                                         *)
(* The chunking engine (github.com/restic/chunker) and the processor are   *)
(* external: the engine is modelled by the interface the commands rely on  *)
(* (a cut after at least MinSize and at most MaxSize bytes, or at the end  *)
(* of the stream; over os.Stdin at the boundaries its content makes, an    *)
(* input of the run), the processor by a nondeterministic output and exit  *)
(* status.                                                                 *)
(***************************************************************************)
EXTENDS Integers, Sequences, FiniteSets, TLC

VARIABLES
    mode,            \* which command runs: "reduce" or "single"
    newPolynomial,   \* flag -new-polynomial
    checkPolynomial, \* flag -check-polynomial
    smallChunks,     \* flag -small-chunks
    largeChunks,     \* flag -large-chunks
    polynomialInt,   \* flag -polynomial
    cmdArgs,         \* flag.Args(): the processor command
    stdin,           \* the bytes piped into os.Stdin
    boundaries,      \* the offsets of os.Stdin where its content makes a boundary
    pc,              \* position of main
    iteration,       \* main.go: iteration
    input,           \* main.go: input (0 is os.Stdin, n >= 1 the n-th bytes.Buffer)
    summaryData,     \* main.go: summaryData (the pointer: index of a buffer in heap)
    heap,            \* the live bytes.Buffer objects, by index
    summaryLine,     \* main.go: summaryLine
    cchunker,        \* the chunker of the current pass
    chunk,           \* chunk returned by the last cchunker.Next(buf); its Data aliases buf
    nChunks,         \* main.go: nChunks
    running,         \* processor subprocesses started and not yet exited
    stdout,          \* bytes written to os.Stdout
    stderr,          \* diagnostics written to os.Stderr by the command itself
    dispatched,      \* history: the subprocesses started in this pass, in order
    exited           \* history: output and status of this pass's subprocesses that exited

flags == <<mode, newPolynomial, checkPolynomial, smallChunks, largeChunks,
           polynomialInt, cmdArgs, stdin, boundaries>>
level == <<iteration, input, summaryData, heap>>
hist  == <<dispatched, exited>>
vars  == <<flags, pc, level, summaryLine, cchunker, chunk, nChunks, running,
           stdout, stderr, hist>>

-----------------------------------------------------------------------------
(* Bounds of the model *)

\* one more than the most content defined boundaries found in a summary
MaxChunks == 2
\* highest iteration index a run may reach
MaxIteration == 2
\* where runs of any number of levels are followed, the iteration index is
\* counted modulo this
IterationModulus == 2

-----------------------------------------------------------------------------
(* Size profiles *)

kiB == 1024
miB == 1024 * kiB

SmallMinSize == 512 * kiB
SmallMaxSize == 8 * miB
SmallBits == 20

StandardMinSize == 512 * kiB
StandardMaxSize == 16 * miB
StandardBits == 22

LargeMinSize == 1024 * kiB
LargeMaxSize == 32 * miB
LargeBits == 23

\* Profile with the two tests in the other order: if large / else if small
ProfileLargeFirst(small, large) ==
    IF large
    THEN [minSize |-> LargeMinSize, maxSize |-> LargeMaxSize, bits |-> LargeBits]
    ELSE IF small
    THEN [minSize |-> SmallMinSize, maxSize |-> SmallMaxSize, bits |-> SmallBits]
    ELSE [minSize |-> StandardMinSize, maxSize |-> StandardMaxSize,
          bits |-> StandardBits]

\* the if / else if / else choosing the chunker's boundaries (multicchunker)
Profile(small, large) ==
    IF small
    THEN [minSize |-> SmallMinSize, maxSize |-> SmallMaxSize, bits |-> SmallBits]
    ELSE IF large
    THEN [minSize |-> LargeMinSize, maxSize |-> LargeMaxSize, bits |-> LargeBits]
    ELSE [minSize |-> StandardMinSize, maxSize |-> StandardMaxSize,
          bits |-> StandardBits]

\* the same choice in cchunker
SingleProfile(small, large) ==
    IF small
    THEN [minSize |-> SmallMinSize, maxSize |-> SmallMaxSize, bits |-> SmallBits]
    ELSE IF large
    THEN [minSize |-> LargeMinSize, maxSize |-> LargeMaxSize, bits |-> LargeBits]
    ELSE [minSize |-> StandardMinSize, maxSize |-> StandardMaxSize,
          bits |-> StandardBits]

ActiveProfile ==
    IF mode = "reduce" THEN Profile(smallChunks, largeChunks)
    ELSE SingleProfile(smallChunks, largeChunks)

-----------------------------------------------------------------------------
(* Byte streams *)

NoChunk == [level |-> -1, off |-> 0, len |-> 0]

\* the bytes on stdin: n opaque bytes
DataPiece(n) ==
    [kind |-> "data", text |-> <<>>, chunk |-> NoChunk, len |-> n, nl |-> 0]

\* literal text written by the command: one character per byte
TextPiece(t) ==
    [kind |-> "text", text |-> t, chunk |-> NoChunk, len |-> Len(t),
     nl |-> Cardinality({i \in 1..Len(t) : t[i] = "\n"})]

\* what the processor wrote to its stdout when run on chunk c
OutPiece(c, shape) ==
    [kind |-> "out", text |-> <<>>, chunk |-> c, len |-> shape.len,
     nl |-> shape.nl]

RECURSIVE StreamLen(_)
StreamLen(s) == IF s = <<>> THEN 0 ELSE Head(s).len + StreamLen(Tail(s))

RECURSIVE Lines(_)
Lines(s) == IF s = <<>> THEN 0 ELSE Head(s).nl + Lines(Tail(s))

Digit(d) == <<"0", "1", "2", "3", "4", "5", "6", "7", "8", "9">>[d + 1]

\* fmt's %d of a non-negative integer
RECURSIVE FormatInt(_)
FormatInt(n) ==
    IF n < 10 THEN <<Digit(n)>>
    ELSE FormatInt(n \div 10) \o <<Digit(n % 10)>>

\* fmt.Fprintf(summaryData, "%d\n", iteration)
IterationLine(i) == TextPiece(FormatInt(i) \o <<"\n">>)

\* the stream a reader reads: os.Stdin or a bytes.Buffer
ReaderBytes(r) == IF r = 0 THEN stdin ELSE heap[r]

-----------------------------------------------------------------------------
(* External collaborators *)

\* what a processor may have written when it exits: on success nothing, one
\* short line, or one line as long as a minimum size chunk; a processor that
\* exits with another status has written a short line before
OutShapes(status) ==
    IF status = 0
    THEN { [len |-> 0, nl |-> 0], [len |-> 8, nl |-> 1],
           [len |-> ActiveProfile.minSize, nl |-> 1] }
    ELSE { [len |-> 8, nl |-> 1] }

\* exit statuses of a processor
ExitStatuses == {0, 2}

\* lengths of the data piped in: nothing, one byte, one byte more than two
\* chunks of minimum size, one byte more than a chunk of maximum size
InputLens ==
    LET p == ActiveProfile IN
    {0, 1, 2 * p.minSize + 1, p.maxSize + 1}

Min(a, b) == IF a <= b THEN a ELSE b
Least(S) == CHOOSE x \in S : \A y \in S : x <= y

\* the offsets of n bytes piped in where their content may make a boundary
\* (the fingerprint of the window ending there matches): one, after MinSize
\* bytes
CutPositions(n) == {ActiveProfile.minSize} \cap 1..n

\* NextLens with content defined boundaries taken anywhere, also before
\* MinSize bytes
NextLensNoMinSize(c, rest, made) ==
    LET limit == Min(c.maxSize, rest)
        cuts  == { b - c.pos : b \in boundaries } \cap 1..limit
    IN
    IF c.src = 0
    THEN IF cuts # {} THEN {Least(cuts)} ELSE {limit}
    ELSE {limit} \cup (IF made + 1 < MaxChunks THEN {1} ELSE {})

\* chunker.Next over a reader with rest bytes left: the lengths of the chunk
\* it may return.  A chunk ends at the end of the stream, at MaxSize, or at
\* the first content defined boundary no earlier than MinSize.  For
\* os.Stdin the content defined boundaries are those of boundaries; the
\* content of a summary is not modelled: a boundary may be found after
\* MinSize bytes, in MaxChunks - 1 chunks of a pass at most (made is the
\* number of chunks already returned in this pass).
NextLens(c, rest, made) ==
    LET limit == Min(c.maxSize, rest)
        cuts  == { b - c.pos : b \in boundaries } \cap c.minSize..limit
    IN
    IF c.src = 0
    THEN IF cuts # {} THEN {Least(cuts)} ELSE {limit}
    ELSE {limit} \cup (IF made + 1 < MaxChunks /\ c.minSize <= limit
                       THEN {c.minSize} ELSE {})

\* chunker.NewWithBoundaries(rd, pol, min, max) followed by SetAverageBits
NewWithBoundaries(rd, pol, p) ==
    [src |-> rd, pol |-> pol, minSize |-> p.minSize, maxSize |-> p.maxSize,
     bits |-> p.bits, pos |-> 0, made |-> 0]

\* exec.Command(cmdArgs[0]) or exec.Command(cmdArgs[0], cmdArgs[1:]...)
Command(args) ==
    IF Len(args) = 1 THEN <<args[1]>> ELSE <<args[1]>> \o Tail(args)

-----------------------------------------------------------------------------
(* Initial states: the command line and the data piped in *)

Init ==
    /\ mode \in {"reduce", "single"}
    /\ newPolynomial \in BOOLEAN
    /\ checkPolynomial \in BOOLEAN
    /\ smallChunks \in BOOLEAN
    /\ largeChunks \in BOOLEAN
    /\ polynomialInt \in {"0x3DA3358B4DC173", "given"}
    /\ cmdArgs \in {<<>>, <<"proc">>, <<"proc", "arg">>}
    /\ \E n \in InputLens :
          /\ stdin = IF n = 0 THEN <<>> ELSE <<DataPiece(n)>>
          /\ boundaries \in SUBSET CutPositions(n)
    /\ pc = "main"
    /\ iteration = 0
    /\ input = 0
    /\ summaryData = 0
    /\ heap = <<>>
    /\ summaryLine = <<>>
    /\ cchunker = NewWithBoundaries(0, polynomialInt, ActiveProfile)
    /\ chunk = NoChunk
    /\ nChunks = 0
    /\ running = {}
    /\ stdout = <<>>
    /\ stderr = <<>>
    /\ dispatched = <<>>
    /\ exited = <<>>

\* &bytes.Buffer{}: a buffer that is not in use.  Two are in use at most,
\* the input and the summary; the buffer that was the input before is free
\* once the summary takes its place.
NewBuffer == CHOOSE b \in {1, 2} : b # summaryData

\* os.Exit(1) after a diagnostic on os.Stderr
Fatal(msg) ==
    /\ stderr' = Append(stderr, msg)
    /\ pc' = "failed"

\* NewProcess with cmd.Stdin reading all of buf, not chunk.Data
NewProcessWholeBuffer(out) ==
    [pid |-> Len(dispatched) + 1, level |-> iteration,
     chunk |-> [chunk EXCEPT !.len = cchunker.maxSize],
     argv |-> Command(cmdArgs), out |-> out]

\* the subprocess cmd.Run() starts for the current chunk: cmd.Stdin reads
\* chunk.Data, cmd.Stdout is summaryLine ("capture") or os.Stdout ("inherit")
NewProcess(out) ==
    [pid |-> Len(dispatched) + 1, level |-> iteration, chunk |-> chunk,
     argv |-> Command(cmdArgs), out |-> out]

-----------------------------------------------------------------------------
(* multicchunker: cmd/multicchunker/main.go *)

\* -new-polynomial: generate a polynomial, print it, exit
NewPolynomial ==
    /\ mode = "reduce" /\ pc = "main"
    /\ newPolynomial
    /\ \/ /\ Fatal("unable to generate polynomial")
          /\ UNCHANGED stdout
       \/ /\ stdout' = Append(stdout, TextPiece(<<"p", "\n">>))
          /\ pc' = "done"
          /\ UNCHANGED stderr
       \/ /\ Fatal("unable to print polynomial")
          /\ UNCHANGED stdout
    /\ UNCHANGED <<flags, level, summaryLine, cchunker, chunk, nChunks, running,
                   hist>>

\* -check-polynomial: exit 0 iff the polynomial is irreducible
CheckPolynomial ==
    /\ mode = "reduce" /\ pc = "main"
    /\ ~newPolynomial /\ checkPolynomial
    /\ \/ Fatal("polynomial is not irreducible")
       \/ pc' = "done" /\ UNCHANGED stderr
    /\ UNCHANGED <<flags, level, summaryLine, cchunker, chunk, nChunks, running,
                   stdout, hist>>

\* Usage returning from main after the usage text: exit status 0
UsageExitsZero ==
    /\ mode = "reduce" /\ pc = "main"
    /\ ~newPolynomial /\ ~checkPolynomial
    /\ Len(cmdArgs) = 0
    /\ stderr' = Append(stderr, "usage")
    /\ pc' = "done"
    /\ UNCHANGED <<flags, level, summaryLine, cchunker, chunk, nChunks, running,
                   stdout, hist>>

\* no processor command: usage() prints and exits 1
Usage ==
    /\ mode = "reduce" /\ pc = "main"
    /\ ~newPolynomial /\ ~checkPolynomial
    /\ Len(cmdArgs) = 0
    /\ Fatal("usage")
    /\ UNCHANGED <<flags, level, summaryLine, cchunker, chunk, nChunks, running,
                   stdout, hist>>

\* summaryData := &bytes.Buffer{}; iteration := 0; input = os.Stdin
Initialize ==
    /\ mode = "reduce" /\ pc = "main"
    /\ ~newPolynomial /\ ~checkPolynomial
    /\ Len(cmdArgs) # 0
    /\ heap' = (NewBuffer :> <<>>)
    /\ summaryData' = NewBuffer
    /\ summaryLine' = <<>>
    /\ iteration' = 0
    /\ input' = 0
    /\ pc' = "levelstart"
    /\ UNCHANGED <<flags, cchunker, chunk, nChunks, running, stdout, stderr,
                   hist>>

\* LevelStart writing the iteration line only into the first summary
LevelStartLineOnce ==
    /\ mode = "reduce" /\ pc = "levelstart"
    /\ heap' = [heap EXCEPT ![summaryData] =
                    IF iteration = 0 THEN @ \o <<IterationLine(iteration)>> ELSE @]
    /\ cchunker' = NewWithBoundaries(input, polynomialInt,
                                     Profile(smallChunks, largeChunks))
    /\ nChunks' = 0
    /\ dispatched' = <<>>
    /\ exited' = <<>>
    /\ pc' = "next"
    /\ UNCHANGED <<flags, iteration, input, summaryData, summaryLine, chunk,
                   running, stdout, stderr>>

\* LevelStart numbering the levels from 1 in the iteration line
LevelStartLineOneBased ==
    /\ mode = "reduce" /\ pc = "levelstart"
    /\ heap' = [heap EXCEPT ![summaryData] =
                    @ \o <<IterationLine(iteration + 1)>>]
    /\ cchunker' = NewWithBoundaries(input, polynomialInt,
                                     Profile(smallChunks, largeChunks))
    /\ nChunks' = 0
    /\ dispatched' = <<>>
    /\ exited' = <<>>
    /\ pc' = "next"
    /\ UNCHANGED <<flags, iteration, input, summaryData, summaryLine, chunk,
                   running, stdout, stderr>>

\* LevelStart constructing the chunker with the standard boundaries whatever
\* the flags
LevelStartStandardProfile ==
    /\ mode = "reduce" /\ pc = "levelstart"
    /\ heap' = [heap EXCEPT ![summaryData] = @ \o <<IterationLine(iteration)>>]
    /\ cchunker' = NewWithBoundaries(input, polynomialInt, Profile(FALSE, FALSE))
    /\ nChunks' = 0
    /\ dispatched' = <<>>
    /\ exited' = <<>>
    /\ pc' = "next"
    /\ UNCHANGED <<flags, iteration, input, summaryData, summaryLine, chunk,
                   running, stdout, stderr>>

\* LevelStart chunking the summaries, but not os.Stdin, with the small
\* boundaries
LevelStartSmallSummaries ==
    /\ mode = "reduce" /\ pc = "levelstart"
    /\ heap' = [heap EXCEPT ![summaryData] = @ \o <<IterationLine(iteration)>>]
    /\ cchunker' = NewWithBoundaries(input, polynomialInt,
                                     Profile(smallChunks \/ iteration > 0,
                                             largeChunks))
    /\ nChunks' = 0
    /\ dispatched' = <<>>
    /\ exited' = <<>>
    /\ pc' = "next"
    /\ UNCHANGED <<flags, iteration, input, summaryData, summaryLine, chunk,
                   running, stdout, stderr>>

\* LevelStart without the iteration line
LevelStartNoLine ==
    /\ mode = "reduce" /\ pc = "levelstart"
    /\ cchunker' = NewWithBoundaries(input, polynomialInt,
                                     Profile(smallChunks, largeChunks))
    /\ nChunks' = 0
    /\ dispatched' = <<>>
    /\ exited' = <<>>
    /\ pc' = "next"
    /\ UNCHANGED <<flags, level, summaryLine, chunk, running, stdout, stderr>>

\* top of the outer loop: the iteration line, a new chunker over input,
\* nChunks := 0
LevelStart ==
    /\ mode = "reduce" /\ pc = "levelstart"
    /\ heap' = [heap EXCEPT ![summaryData] = @ \o <<IterationLine(iteration)>>]
    /\ cchunker' = NewWithBoundaries(input, polynomialInt,
                                     Profile(smallChunks, largeChunks))
    /\ nChunks' = 0
    /\ dispatched' = <<>>
    /\ exited' = <<>>
    /\ pc' = "next"
    /\ UNCHANGED <<flags, iteration, input, summaryData, summaryLine, chunk,
                   running, stdout, stderr>>

\* chunk, err := cchunker.Next(buf): io.EOF leaves the chunk loop, a chunk
\* overwrites buf
NextChunk ==
    /\ mode = "reduce" /\ pc = "next"
    /\ LET rest == StreamLen(ReaderBytes(cchunker.src)) - cchunker.pos IN
       IF rest = 0
       THEN /\ pc' = "levelend"
            /\ UNCHANGED <<cchunker, chunk>>
       ELSE \E l \in NextLens(cchunker, rest, cchunker.made) :
            /\ chunk' = [level |-> iteration, off |-> cchunker.pos, len |-> l]
            /\ cchunker' = [cchunker EXCEPT !.pos = @ + l, !.made = @ + 1]
            /\ pc' = "run"
    /\ UNCHANGED <<flags, level, summaryLine, nChunks, running, stdout, stderr,
                   hist>>

\* cchunker.Next fails: only os.Stdin can fail to read
NextError ==
    /\ mode = "reduce" /\ pc = "next"
    /\ cchunker.src = 0
    /\ Fatal("error getting next data chunk")
    /\ UNCHANGED <<flags, level, summaryLine, cchunker, chunk, nChunks, running,
                   stdout, hist>>

\* Run starting the processor without waiting for it (cmd.Start for cmd.Run)
RunNoWait ==
    /\ mode = "reduce" /\ pc = "run"
    /\ summaryLine' = <<>>
    /\ running' = running \cup {NewProcess("capture")}
    /\ dispatched' = Append(dispatched, NewProcess("capture"))
    /\ heap' = [heap EXCEPT ![summaryData] = @ \o summaryLine']
    /\ nChunks' = nChunks + 1
    /\ pc' = "next"
    /\ UNCHANGED <<flags, iteration, input, summaryData, cchunker, chunk, stdout,
                   stderr, exited>>

\* Run without summaryLine.Reset(): the previous chunk's output stays in the
\* line buffer
RunNoReset ==
    /\ mode = "reduce" /\ pc = "run"
    /\ running' = running \cup {NewProcess("capture")}
    /\ dispatched' = Append(dispatched, NewProcess("capture"))
    /\ pc' = "wait"
    /\ UNCHANGED <<flags, level, summaryLine, cchunker, chunk, nChunks, stdout,
                   stderr, exited>>

\* summaryLine.Reset(); cmd.Run() starts the processor with the chunk on its
\* stdin and summaryLine as its stdout, and waits
Run ==
    /\ mode = "reduce" /\ pc = "run"
    /\ summaryLine' = <<>>
    /\ running' = running \cup {NewProcess("capture")}
    /\ dispatched' = Append(dispatched, NewProcess("capture"))
    /\ pc' = "wait"
    /\ UNCHANGED <<flags, level, cchunker, chunk, nChunks, stdout, stderr,
                   exited>>

\* cmd.Run() fails to start the processor
RunFails ==
    /\ mode = "reduce" /\ pc = "run"
    /\ summaryLine' = <<>>
    /\ Fatal("error running chunk processing command")
    /\ UNCHANGED <<flags, level, cchunker, chunk, nChunks, running, stdout,
                   hist>>

\* Wait appending summaryLine before looking at the error of cmd.Run()
WaitAppendsAlways ==
    /\ mode = "reduce" /\ pc = "wait"
    /\ \E p \in running, status \in ExitStatuses :
       \E shape \in OutShapes(status) :
       LET out == OutPiece(p.chunk, shape) IN
       /\ running' = running \ {p}
       /\ summaryLine' = summaryLine \o <<out>>
       /\ exited' = Append(exited, [pid |-> p.pid, out |-> out, status |-> status])
       /\ heap' = [heap EXCEPT ![summaryData] = @ \o summaryLine']
       /\ IF status = 0
          THEN /\ nChunks' = nChunks + 1
               /\ pc' = "next"
               /\ UNCHANGED stderr
          ELSE /\ Fatal("error running chunk processing command")
               /\ UNCHANGED nChunks
    /\ UNCHANGED <<flags, iteration, input, summaryData, cchunker, chunk,
                   stdout, dispatched>>

\* the processor has written its output to summaryLine and exits; cmd.Run()
\* returns: status 0 appends summaryLine to summaryData and counts the chunk,
\* any other status is fatal
Wait ==
    /\ mode = "reduce" /\ pc = "wait"
    /\ \E p \in running, status \in ExitStatuses :
       \E shape \in OutShapes(status) :
       LET out == OutPiece(p.chunk, shape) IN
       /\ running' = running \ {p}
       /\ summaryLine' = summaryLine \o <<out>>
       /\ exited' = Append(exited, [pid |-> p.pid, out |-> out, status |-> status])
       /\ IF status = 0
          THEN /\ heap' = [heap EXCEPT ![summaryData] = @ \o summaryLine']
               /\ nChunks' = nChunks + 1
               /\ pc' = "next"
               /\ UNCHANGED stderr
          ELSE /\ Fatal("error running chunk processing command")
               /\ UNCHANGED <<heap, nChunks>>
    /\ UNCHANGED <<flags, iteration, input, summaryData, cchunker, chunk,
                   stdout, dispatched>>

\* LevelEnd emptying the summary buffer with Reset() in place of allocating
\* a new one: input and summaryData are the same buffer
LevelEndResetsBuffer ==
    /\ mode = "reduce" /\ pc = "levelend"
    /\ IF nChunks = 0 \/ nChunks = 1
       THEN /\ \/ /\ stdout' = stdout \o heap[summaryData]
                  /\ pc' = "done"
                  /\ UNCHANGED stderr
               \/ /\ Fatal("error writing summary line")
                  /\ UNCHANGED stdout
            /\ UNCHANGED level
       ELSE /\ iteration < MaxIteration
            /\ input' = summaryData
            /\ heap' = (summaryData :> <<>>)
            /\ iteration' = iteration + 1
            /\ pc' = "levelstart"
            /\ UNCHANGED <<summaryData, stdout, stderr>>
    /\ UNCHANGED <<flags, summaryLine, cchunker, chunk, nChunks, running, hist>>

\* LevelEnd handing the summary buffer on as input without allocating a new
\* summary buffer
LevelEndKeepsBuffer ==
    /\ mode = "reduce" /\ pc = "levelend"
    /\ IF nChunks = 0 \/ nChunks = 1
       THEN /\ \/ /\ stdout' = stdout \o heap[summaryData]
                  /\ pc' = "done"
                  /\ UNCHANGED stderr
               \/ /\ Fatal("error writing summary line")
                  /\ UNCHANGED stdout
            /\ UNCHANGED level
       ELSE /\ iteration < MaxIteration
            /\ input' = summaryData
            /\ iteration' = iteration + 1
            /\ pc' = "levelstart"
            /\ UNCHANGED <<heap, summaryData, stdout, stderr>>
    /\ UNCHANGED <<flags, summaryLine, cchunker, chunk, nChunks, running, hist>>

\* LevelEnd writing every level's summary to os.Stdout, not only the last
LevelEndWritesEveryLevel ==
    /\ mode = "reduce" /\ pc = "levelend"
    /\ IF nChunks = 0 \/ nChunks = 1
       THEN /\ \/ /\ stdout' = stdout \o heap[summaryData]
                  /\ pc' = "done"
                  /\ UNCHANGED stderr
               \/ /\ Fatal("error writing summary line")
                  /\ UNCHANGED stdout
            /\ UNCHANGED level
       ELSE /\ iteration < MaxIteration
            /\ stdout' = stdout \o heap[summaryData]
            /\ input' = summaryData
            /\ heap' = (summaryData :> heap[summaryData]) @@ (NewBuffer :> <<>>)
            /\ summaryData' = NewBuffer
            /\ iteration' = iteration + 1
            /\ pc' = "levelstart"
            /\ UNCHANGED stderr
    /\ UNCHANGED <<flags, summaryLine, cchunker, chunk, nChunks, running, hist>>

\* LevelEnd with the test nChunks == 0 alone: a level of one chunk goes on
LevelEndOnlyWhenEmpty ==
    /\ mode = "reduce" /\ pc = "levelend"
    /\ IF nChunks = 0
       THEN /\ \/ /\ stdout' = stdout \o heap[summaryData]
                  /\ pc' = "done"
                  /\ UNCHANGED stderr
               \/ /\ Fatal("error writing summary line")
                  /\ UNCHANGED stdout
            /\ UNCHANGED level
       ELSE /\ iteration < MaxIteration
            /\ input' = summaryData
            /\ heap' = (summaryData :> heap[summaryData]) @@ (NewBuffer :> <<>>)
            /\ summaryData' = NewBuffer
            /\ iteration' = iteration + 1
            /\ pc' = "levelstart"
            /\ UNCHANGED <<stdout, stderr>>
    /\ UNCHANGED <<flags, summaryLine, cchunker, chunk, nChunks, running, hist>>

\* after the chunk loop.  nChunks is 0 or 1: break, write the summary to
\* os.Stdout and return.  Otherwise the summary buffer becomes the next
\* level's input, a new buffer becomes the summary and iteration += 1; the
\* buffer that was the input is no longer referenced.
LevelEnd ==
    /\ mode = "reduce" /\ pc = "levelend"
    /\ IF nChunks = 0 \/ nChunks = 1
       THEN /\ \/ /\ stdout' = stdout \o heap[summaryData]
                  /\ pc' = "done"
                  /\ UNCHANGED stderr
               \/ /\ Fatal("error writing summary line")
                  /\ UNCHANGED stdout
            /\ UNCHANGED level
       ELSE /\ iteration < MaxIteration
            /\ input' = summaryData
            /\ heap' = (summaryData :> heap[summaryData]) @@ (NewBuffer :> <<>>)
            /\ summaryData' = NewBuffer
            /\ iteration' = iteration + 1
            /\ pc' = "levelstart"
            /\ UNCHANGED <<stdout, stderr>>
    /\ UNCHANGED <<flags, summaryLine, cchunker, chunk, nChunks, running, hist>>

\* LevelEndLoop with the test nChunks == 0 || nChunks == 2: a level of one
\* chunk goes on, a level of two ends the run
LevelEndLoopWrongCount ==
    /\ mode = "reduce" /\ pc = "levelend"
    /\ IF nChunks = 0 \/ nChunks = 2
       THEN /\ \/ /\ stdout' = stdout \o heap[summaryData]
                  /\ pc' = "done"
                  /\ UNCHANGED stderr
               \/ /\ Fatal("error writing summary line")
                  /\ UNCHANGED stdout
            /\ UNCHANGED level
       ELSE /\ input' = summaryData
            /\ heap' = (summaryData :> heap[summaryData]) @@ (NewBuffer :> <<>>)
            /\ summaryData' = NewBuffer
            /\ iteration' = (iteration + 1) % IterationModulus
            /\ pc' = "levelstart"
            /\ UNCHANGED <<stdout, stderr>>
    /\ UNCHANGED <<flags, summaryLine, cchunker, chunk, nChunks, running, hist>>

\* LevelEnd for runs of any number of levels: the same step, with iteration
\* counted modulo IterationModulus in place of the bound on it, so that a run
\* whose levels never get down to one chunk is a cycle of the model.
LevelEndLoop ==
    /\ mode = "reduce" /\ pc = "levelend"
    /\ IF nChunks = 0 \/ nChunks = 1
       THEN /\ \/ /\ stdout' = stdout \o heap[summaryData]
                  /\ pc' = "done"
                  /\ UNCHANGED stderr
               \/ /\ Fatal("error writing summary line")
                  /\ UNCHANGED stdout
            /\ UNCHANGED level
       ELSE /\ input' = summaryData
            /\ heap' = (summaryData :> heap[summaryData]) @@ (NewBuffer :> <<>>)
            /\ summaryData' = NewBuffer
            /\ iteration' = (iteration + 1) % IterationModulus
            /\ pc' = "levelstart"
            /\ UNCHANGED <<stdout, stderr>>
    /\ UNCHANGED <<flags, summaryLine, cchunker, chunk, nChunks, running, hist>>

\* the steps of multicchunker inside a level
ReduceLevel ==
    \/ NewPolynomial \/ CheckPolynomial \/ Usage \/ Initialize
    \/ LevelStart \/ NextChunk \/ NextError \/ Run \/ RunFails \/ Wait

Reduce == ReduceLevel \/ LevelEnd

-----------------------------------------------------------------------------
(* cchunker: unnamed/part_000 *)

\* -new-polynomial: generate a polynomial, print it, exit
SingleNewPolynomial ==
    /\ mode = "single" /\ pc = "main"
    /\ newPolynomial
    /\ \/ /\ Fatal("unable to generate polynomial")
          /\ UNCHANGED stdout
       \/ /\ stdout' = Append(stdout, TextPiece(<<"p", "\n">>))
          /\ pc' = "done"
          /\ UNCHANGED stderr
       \/ /\ Fatal("unable to print polynomial")
          /\ UNCHANGED stdout
    /\ UNCHANGED <<flags, level, summaryLine, cchunker, chunk, nChunks, running,
                   hist>>

\* -check-polynomial: exit 0 iff the polynomial is irreducible
SingleCheckPolynomial ==
    /\ mode = "single" /\ pc = "main"
    /\ ~newPolynomial /\ checkPolynomial
    /\ \/ Fatal("polynomial is not irreducible")
       \/ pc' = "done" /\ UNCHANGED stderr
    /\ UNCHANGED <<flags, level, summaryLine, cchunker, chunk, nChunks, running,
                   stdout, hist>>

\* no processor command: usage() prints and exits 1
SingleUsage ==
    /\ mode = "single" /\ pc = "main"
    /\ ~newPolynomial /\ ~checkPolynomial
    /\ Len(cmdArgs) = 0
    /\ Fatal("usage")
    /\ UNCHANGED <<flags, level, summaryLine, cchunker, chunk, nChunks, running,
                   stdout, hist>>

\* the chunker over os.Stdin with the boundaries of the chosen profile
SingleInitialize ==
    /\ mode = "single" /\ pc = "main"
    /\ ~newPolynomial /\ ~checkPolynomial
    /\ Len(cmdArgs) # 0
    /\ cchunker' = NewWithBoundaries(0, polynomialInt,
                                     SingleProfile(smallChunks, largeChunks))
    /\ pc' = "next"
    /\ UNCHANGED <<flags, level, summaryLine, chunk, nChunks, running, stdout,
                   stderr, hist>>

\* chunk, err := cchunker.Next(buf): io.EOF leaves the loop and main returns
SingleNextChunk ==
    /\ mode = "single" /\ pc = "next"
    /\ LET rest == StreamLen(ReaderBytes(cchunker.src)) - cchunker.pos IN
       IF rest = 0
       THEN /\ pc' = "done"
            /\ UNCHANGED <<cchunker, chunk>>
       ELSE \E l \in NextLens(cchunker, rest, cchunker.made) :
            /\ chunk' = [level |-> 0, off |-> cchunker.pos, len |-> l]
            /\ cchunker' = [cchunker EXCEPT !.pos = @ + l, !.made = @ + 1]
            /\ pc' = "run"
    /\ UNCHANGED <<flags, level, summaryLine, nChunks, running, stdout, stderr,
                   hist>>

\* cchunker.Next fails to read os.Stdin
SingleNextError ==
    /\ mode = "single" /\ pc = "next"
    /\ Fatal("error getting next data chunk")
    /\ UNCHANGED <<flags, level, summaryLine, cchunker, chunk, nChunks, running,
                   stdout, hist>>

\* cmd.Run() starts the processor with the chunk on its stdin and os.Stdout
\* as its stdout, and waits
SingleRun ==
    /\ mode = "single" /\ pc = "run"
    /\ running' = running \cup {NewProcess("inherit")}
    /\ dispatched' = Append(dispatched, NewProcess("inherit"))
    /\ pc' = "wait"
    /\ UNCHANGED <<flags, level, summaryLine, cchunker, chunk, nChunks, stdout,
                   stderr, exited>>

\* cmd.Run() fails to start the processor
SingleRunFails ==
    /\ mode = "single" /\ pc = "run"
    /\ Fatal("error running chunk processing command")
    /\ UNCHANGED <<flags, level, summaryLine, cchunker, chunk, nChunks, running,
                   stdout, hist>>

\* SingleWait running the command again on the same chunk when it exits
\* with a status other than 0
SingleWaitRetries ==
    /\ mode = "single" /\ pc = "wait"
    /\ \E p \in running, status \in ExitStatuses :
       \E shape \in OutShapes(status) :
       /\ running' = running \ {p}
       /\ stdout' = Append(stdout, OutPiece(p.chunk, shape))
       /\ exited' = Append(exited, [pid |-> p.pid,
                                    out |-> OutPiece(p.chunk, shape),
                                    status |-> status])
       /\ pc' = IF status = 0 THEN "next" ELSE "run"
       /\ UNCHANGED stderr
    /\ UNCHANGED <<flags, level, summaryLine, cchunker, chunk, nChunks,
                   dispatched>>

\* SingleWait dropping the error of cmd.Run(): the loop goes on
SingleWaitIgnoresStatus ==
    /\ mode = "single" /\ pc = "wait"
    /\ \E p \in running, status \in ExitStatuses :
       \E shape \in OutShapes(status) :
       /\ running' = running \ {p}
       /\ stdout' = Append(stdout, OutPiece(p.chunk, shape))
       /\ exited' = Append(exited, [pid |-> p.pid,
                                    out |-> OutPiece(p.chunk, shape),
                                    status |-> status])
       /\ pc' = "next"
       /\ UNCHANGED stderr
    /\ UNCHANGED <<flags, level, summaryLine, cchunker, chunk, nChunks,
                   dispatched>>

\* the processor has written its output to os.Stdout and exits; cmd.Run()
\* returns: status 0 goes on to the next chunk, any other status is fatal
SingleWait ==
    /\ mode = "single" /\ pc = "wait"
    /\ \E p \in running, status \in ExitStatuses :
       \E shape \in OutShapes(status) :
       /\ running' = running \ {p}
       /\ stdout' = Append(stdout, OutPiece(p.chunk, shape))
       /\ exited' = Append(exited, [pid |-> p.pid,
                                    out |-> OutPiece(p.chunk, shape),
                                    status |-> status])
       /\ IF status = 0
          THEN pc' = "next" /\ UNCHANGED stderr
          ELSE Fatal("error running chunk processing command")
    /\ UNCHANGED <<flags, level, summaryLine, cchunker, chunk, nChunks,
                   dispatched>>

Single ==
    \/ SingleNewPolynomial \/ SingleCheckPolynomial \/ SingleUsage
    \/ SingleInitialize \/ SingleNextChunk \/ SingleNextError
    \/ SingleRun \/ SingleRunFails \/ SingleWait

Next == Reduce \/ Single

Spec == Init /\ [][Next]_vars

\* Reduction runs of any number of levels, with fairness: main keeps
\* running and every processor started exits.  The runs are those of
\* multicchunker with the default polynomial and a command of one word at
\* most; neither is looked at by the level loop.
InitLoop ==
    /\ Init
    /\ mode = "reduce"
    /\ polynomialInt = "0x3DA3358B4DC173"
    /\ Len(cmdArgs) <= 1

NextLoop == ReduceLevel \/ LevelEndLoop

FairLoopSpec == InitLoop /\ [][NextLoop]_vars /\ WF_vars(NextLoop)

-----------------------------------------------------------------------------
(* Properties of the reduction driver *)

\* main is inside the reduction loop, or left it by finishing or failing
InReduction == mode = "reduce" /\ summaryData # 0
\* the iteration line of the current level has been written
LevelStarted == InReduction /\ pc # "levelstart"

\* the pieces of stream s after the first are outputs for the chunks of
\* level lv, in chunk order: each chunk starts where the one before ends
OutputsInChunkOrder(s, lv) ==
    \A k \in 2..Len(s) :
        /\ s[k].kind = "out"
        /\ s[k].chunk.level = lv
        /\ s[k].chunk.len >= 1
        /\ s[k].chunk.off = IF k = 2 THEN 0
                            ELSE s[k - 1].chunk.off + s[k - 1].chunk.len

\* C1: at the end of a level's chunk loop the summary is the iteration line
\* followed by exactly one captured output per chunk of the level, in chunk
\* order (the k-th output is what the processor of the k-th chunk wrote); the
\* chunks cover the level's input; if every output is one line the summary
\* has 1 + nChunks lines.
C1_SummaryIsOutputsInChunkOrder ==
    (mode = "reduce" /\ pc = "levelend") =>
        LET s == heap[summaryData] IN
        /\ Len(s) = 1 + nChunks
        /\ s[1] = IterationLine(iteration)
        /\ nChunks = cchunker.made
        /\ Len(dispatched) = nChunks
        /\ Len(exited) = nChunks
        /\ \A k \in 1..nChunks :
              /\ s[k + 1] = exited[k].out
              /\ exited[k].status = 0
              /\ exited[k].pid = k
              /\ s[k + 1].chunk = dispatched[k].chunk
        /\ OutputsInChunkOrder(s, iteration)
        /\ (nChunks > 0 =>
               s[Len(s)].chunk.off + s[Len(s)].chunk.len
                   = StreamLen(ReaderBytes(input)))
        /\ ((\A k \in 2..Len(s) : s[k].nl = 1) => Lines(s) = 1 + nChunks)

\* a level past the first ended with two different outputs captured
C1_Witness ==
    /\ mode = "reduce" /\ pc = "levelend"
    /\ iteration >= 1
    /\ nChunks >= 2
    /\ heap[summaryData][2].len # heap[summaryData][3].len

\* C2: a step that leaves the end of a level's chunk loop ends the run if
\* and only if nChunks is 0 or 1; with nChunks >= 2 it starts the next level:
\* the input holds exactly the bytes of the summary, iteration is one more
\* and the summary is a new empty buffer.
C2_TerminateOrRecurse ==
    [][ (mode = "reduce" /\ pc = "levelend") =>
          /\ (nChunks \in {0, 1}) <=> (pc' \in {"done", "failed"})
          /\ (nChunks >= 2) <=> (pc' = "levelstart")
          /\ pc' = "levelstart" =>
                /\ input' # 0
                /\ heap'[input'] = heap[summaryData]
                /\ heap'[input'][1] = IterationLine(iteration)
                /\ iteration' = iteration + 1
                /\ summaryData' # input'
                /\ summaryData' # summaryData
                /\ heap'[summaryData'] = <<>> ]_vars

\* the second level starts: its input is a summary of three pieces
C2_Witness ==
    /\ mode = "reduce" /\ pc = "levelstart"
    /\ iteration = 1
    /\ input # 0
    /\ Len(heap[input]) = 3
    /\ heap[summaryData] = <<>>

\* C3: in a reduction run os.Stdout stays empty until the run is done, and
\* then holds the summary of the level that ended with nChunks 0 or 1, once:
\* no processor output and no earlier summary is written to it.
C3_StdoutIsFinalSummary ==
    InReduction =>
        \/ stdout = <<>>
        \/ /\ pc = "done"
           /\ nChunks \in {0, 1}
           /\ stdout = heap[summaryData]
           /\ stdout[1] = IterationLine(iteration)
           /\ cchunker.pos = StreamLen(ReaderBytes(input))

\* a run of two levels is done: the output is the second summary
C3_Witness ==
    /\ InReduction /\ pc = "done"
    /\ iteration = 1
    /\ Len(stdout) = 2
    /\ stdout[2].len > 0

\* C4: once a level has started, its summary begins with the line holding
\* the level's iteration index and nothing else in it is such a line; the
\* index is 0 while the input is os.Stdin and one more than the index on the
\* first line of the input otherwise.
C4_IterationLineFirst ==
    /\ (InReduction /\ pc = "levelstart") => heap[summaryData] = <<>>
    /\ LevelStarted =>
          LET s == heap[summaryData] IN
          /\ Len(s) >= 1
          /\ s[1].kind = "text"
          /\ s[1].text = FormatInt(iteration) \o <<"\n">>
          /\ s[1].nl = 1
          /\ (iteration = 0 => s[1].text = <<"0", "\n">>)
          /\ (iteration = 1 => s[1].text = <<"1", "\n">>)
          /\ \A k \in 2..Len(s) : s[k].kind = "out"
    /\ InReduction =>
          /\ (input = 0) <=> (iteration = 0)
          /\ (input # 0) =>
                /\ iteration >= 1
                /\ heap[input][1].text = FormatInt(iteration - 1) \o <<"\n">>

\* the last level of a run of two levels or more has its line and an output
C4_Witness ==
    /\ LevelStarted /\ pc = "levelend"
    /\ iteration >= 1
    /\ nChunks = 1
    /\ heap[summaryData][1].text = FormatInt(iteration) \o <<"\n">>

\* C5: a run ends at level 0 when level 0 has no chunk or one chunk: a
\* later level is only entered after a level of two chunks or more, input of
\* at most MinSize bytes is never more than one chunk, and the output of a
\* run done at level 0 is the line "0" followed by at most one processor
\* output, the one for the chunk that is the whole input.
C5_TrivialInputEndsAtLevelZero ==
    InReduction =>
        /\ (iteration >= 1 => Len(heap[input]) >= 3)
        /\ (StreamLen(stdin) <= ActiveProfile.minSize =>
               iteration = 0 /\ cchunker.made <= 1)
        /\ (pc = "done" /\ iteration = 0) =>
              /\ cchunker.made <= 1
              /\ Len(stdout) = 1 + cchunker.made
              /\ stdout[1] = TextPiece(<<"0", "\n">>)
              /\ (stdin = <<>> => stdout = <<TextPiece(<<"0", "\n">>)>>)
              /\ (Len(stdout) = 2 =>
                     /\ stdout[2].kind = "out"
                     /\ stdout[2].chunk =
                            [level |-> 0, off |-> 0, len |-> StreamLen(stdin)])

\* a one chunk input is done at level 0 with one processor output
C5_Witness ==
    /\ InReduction /\ pc = "done"
    /\ iteration = 0
    /\ Len(stdout) = 2
    /\ stdout[2].len = 8

\* C6: when the chunk loop of level 1 ends with one chunk, the run ends at
\* level 1, and if it is done the output is the line "1" followed by the
\* processor's output for the chunk that is the whole level 0 summary: the
\* line "0" followed by the n >= 2 outputs of level 0 in chunk order.
C6_TwoLevelRun ==
    [][ (mode = "reduce" /\ pc = "levelend" /\ iteration = 1 /\ nChunks = 1) =>
          /\ pc' \in {"done", "failed"}
          /\ iteration' = 1
          /\ pc' = "done" =>
                /\ Len(stdout') = 2
                /\ stdout'[1] = TextPiece(<<"1", "\n">>)
                /\ stdout'[2].kind = "out"
                /\ stdout'[2] = exited[1].out
                /\ stdout'[2].chunk =
                       [level |-> 1, off |-> 0, len |-> StreamLen(heap[input])]
                /\ Len(heap[input]) >= 3
                /\ heap[input][1] = TextPiece(<<"0", "\n">>)
                /\ OutputsInChunkOrder(heap[input], 0)
                /\ LET last == heap[input][Len(heap[input])].chunk IN
                   last.off + last.len = StreamLen(stdin) ]_vars

\* three chunks at level 0, or two, each with an 8 byte line; done at level 1
C6_Witness ==
    /\ InReduction /\ pc = "done"
    /\ iteration = 1
    /\ Len(stdout) = 2
    /\ Len(heap[input]) = 1 + MaxChunks
    /\ \A k \in 2..Len(heap[input]) : heap[input][k].len = 8

\* the diagnostic main printed last
LastError == IF stderr = <<>> THEN "" ELSE stderr[Len(stderr)]

\* C7: when a processor cannot be started or exits with a status other than
\* 0 the reduction run has failed and takes no further step; nothing was
\* written to os.Stdout, no subprocess is left, and the summary of the level
\* holds the iteration line and the outputs of the chunks before the failing
\* one only.
C7_FailedDispatchAborts ==
    /\ [](  ( /\ mode = "reduce" /\ pc = "failed"
              /\ LastError = "error running chunk processing command" ) =>
            LET s == heap[summaryData]
                k == cchunker.made
            IN
            /\ stdout = <<>>
            /\ running = {}
            /\ nChunks = k - 1
            /\ Len(s) = k
            /\ s[1] = IterationLine(iteration)
            /\ Len(dispatched) \in {k - 1, k}
            /\ Len(exited) = Len(dispatched)
            /\ \A j \in 1..(k - 1) : s[j + 1] = exited[j].out /\ exited[j].status = 0
            /\ (Len(exited) = k =>
                   /\ exited[k].status # 0
                   /\ \A j \in 1..Len(s) : s[j] # exited[k].out) )
    /\ [][ ~(mode = "reduce" /\ pc = "failed") ]_vars

\* the processor of the second chunk of a level wrote a line and exited 2
C7_Witness ==
    /\ mode = "reduce" /\ pc = "failed"
    /\ cchunker.made = 2
    /\ Len(exited) = 2
    /\ exited[2].status = 2
    /\ exited[2].out.len > 0
    /\ Len(heap[summaryData]) = 2

\* C8: the single level driver starts one processor per chunk, in chunk
\* order, each only after all earlier ones exited 0; it is done only with
\* the source exhausted and every chunk dispatched; once failed it takes no
\* further step.
C8_SingleLevelDispatch ==
    /\ [](  mode = "single" =>
            /\ (pc = "run" => Len(dispatched) = cchunker.made - 1)
            /\ (pc \in {"next", "wait", "done"} =>
                   Len(dispatched) = cchunker.made)
            /\ Len(dispatched) \in {cchunker.made - 1, cchunker.made}
            /\ \A k \in 1..Len(dispatched) :
                  /\ dispatched[k].pid = k
                  /\ dispatched[k].chunk.len >= 1
                  /\ dispatched[k].chunk.off =
                        IF k = 1 THEN 0
                        ELSE dispatched[k - 1].chunk.off
                                 + dispatched[k - 1].chunk.len
            /\ \A k \in 1..(Len(dispatched) - 1) :
                  Len(exited) >= k /\ exited[k].status = 0
            /\ (pc = "done" /\ ~newPolynomial /\ ~checkPolynomial) =>
                  /\ cchunker.pos = StreamLen(stdin)
                  /\ Len(exited) = cchunker.made
                  /\ \A k \in 1..Len(exited) : exited[k].status = 0
                  /\ running = {} )
    /\ [][ ~(mode = "single" /\ pc = "failed") ]_vars

\* the first of several chunks failed: the rest of stdin is never chunked
C8_Witness ==
    /\ mode = "single" /\ pc = "failed"
    /\ Len(dispatched) = 1
    /\ Len(exited) = 1
    /\ exited[1].status # 0
    /\ cchunker.pos < StreamLen(stdin)

\* C9: in both commands at most one processor runs at a time, and only
\* while main waits in cmd.Run(): it is the one started last, its stdin is
\* the chunk in buf, and cchunker.Next is not called before it exited; one
\* processor is started per chunk returned.
C9_NoOverlap ==
    /\ Cardinality(running) <= 1
    /\ (running # {} => pc = "wait")
    /\ \A p \in running :
          /\ p.chunk = chunk
          /\ p = dispatched[Len(dispatched)]
    /\ (pc = "wait" => Cardinality(running) = 1)
    /\ (pc = "run" => Len(dispatched) = cchunker.made - 1)
    /\ (pc \in {"next", "wait", "levelend", "done"} =>
           Len(dispatched) = cchunker.made)
    /\ \A k \in 1..Len(dispatched) : dispatched[k].pid = k

\* the processor of a second chunk is running
C9_Witness ==
    /\ pc = "wait"
    /\ Cardinality(running) = 1
    /\ Len(dispatched) = 2
    /\ chunk.off > 0

\* C10 as stated: every reduction run ends
C10_EveryRunTerminates ==
    <>(mode = "reduce" => pc \in {"done", "failed"})

\* a captured output of the current level is too long for the level to be
\* sure to shrink: twice its length plus the iteration line exceeds MinSize
LongOutputCaptured ==
    /\ InReduction
    /\ \E k \in 2..Len(heap[summaryData]) :
          2 * heap[summaryData][k].len + heap[summaryData][1].len
              > ActiveProfile.minSize

\* C10 amended: every reduction run in which main keeps running and every
\* processor exits either ends, or captures an output so long that twice its
\* length plus the length of the iteration line exceeds the minimum chunk
\* size; a run that is done wrote at most one processor output.
C10_TerminatesWithShortOutputs ==
    /\ <>(mode = "reduce" => (pc \in {"done", "failed"} \/ LongOutputCaptured))
    /\ [](InReduction /\ pc = "done" => Len(stdout) <= 2)

\* a run with short outputs only went through two levels and is done
C10_Witness ==
    /\ InReduction /\ pc = "done"
    /\ iteration = 1
    /\ nChunks = 1
    /\ Len(heap[input]) >= 3
    /\ \A k \in 2..Len(heap[input]) : heap[input][k].len \in {0, 8}
    /\ stdout[2].len = 8

-----------------------------------------------------------------------------
(* Sizes across levels *)

\* C11 as stated: at the end of every level that goes on (nChunks >= 2) the
\* summary, the next level's input, is strictly shorter in bytes than the
\* level's own input.
C11_SummaryShorterThanInput ==
    (mode = "reduce" /\ pc = "levelend" /\ nChunks >= 2) =>
        StreamLen(heap[summaryData]) < StreamLen(ReaderBytes(input))

\* C11 amended: at the end of a level that goes on, the input is longer than
\* (nChunks - 1) * MinSize bytes, and if no captured output of the level is
\* long (twice its length plus the iteration line is at most MinSize) the
\* summary is strictly shorter than the input, and no longer than
\* (nChunks - 1) * MinSize.
C11_ShortOutputsShrink ==
    (mode = "reduce" /\ pc = "levelend" /\ nChunks >= 2) =>
        /\ StreamLen(ReaderBytes(input)) > (nChunks - 1) * cchunker.minSize
        /\ ~LongOutputCaptured =>
              /\ StreamLen(heap[summaryData]) < StreamLen(ReaderBytes(input))
              /\ StreamLen(heap[summaryData])
                     <= (nChunks - 1) * cchunker.minSize

\* the second level ends with two chunks and short outputs, one of 8 bytes
C11_Witness ==
    /\ mode = "reduce" /\ pc = "levelend"
    /\ iteration = 1
    /\ nChunks = 2
    /\ ~LongOutputCaptured
    /\ heap[summaryData][3].len = 8

-----------------------------------------------------------------------------
(* Size profiles of the chunker *)

\* main has constructed a chunker from the flags
ChunkerBuilt ==
    /\ ~newPolynomial /\ ~checkPolynomial /\ cmdArgs # <<>>
    /\ pc \notin {"main", "levelstart"}

\* minimum size, maximum size and average bits of the chunker in use
Boundaries == <<cchunker.minSize, cchunker.maxSize, cchunker.bits>>

\* C12 as stated: the chunker has the standard boundaries with neither
\* flag set, the small ones with -small-chunks only, the large ones with
\* -large-chunks only, and the large ones with both flags set.
C12_LargeWins ==
    ChunkerBuilt =>
        /\ (~smallChunks /\ ~largeChunks) =>
              Boundaries = <<StandardMinSize, StandardMaxSize, StandardBits>>
        /\ (smallChunks /\ ~largeChunks) =>
              Boundaries = <<SmallMinSize, SmallMaxSize, SmallBits>>
        /\ (~smallChunks /\ largeChunks) =>
              Boundaries = <<LargeMinSize, LargeMaxSize, LargeBits>>
        /\ (smallChunks /\ largeChunks) =>
              Boundaries = <<LargeMinSize, LargeMaxSize, LargeBits>>

\* C12 amended: as above, but with both flags set the chunker has the small
\* boundaries; in both commands and at every level.
C12_SmallWins ==
    ChunkerBuilt =>
        /\ (~smallChunks /\ ~largeChunks) =>
              Boundaries = <<StandardMinSize, StandardMaxSize, StandardBits>>
        /\ (smallChunks /\ ~largeChunks) =>
              Boundaries = <<SmallMinSize, SmallMaxSize, SmallBits>>
        /\ (~smallChunks /\ largeChunks) =>
              Boundaries = <<LargeMinSize, LargeMaxSize, LargeBits>>
        /\ (smallChunks /\ largeChunks) =>
              Boundaries = <<SmallMinSize, SmallMaxSize, SmallBits>>
        /\ chunk.len <= cchunker.maxSize

\* with both flags set a processor runs on a chunk cut at the small maximum
C12_Witness ==
    /\ smallChunks /\ largeChunks
    /\ pc = "wait"
    /\ chunk.len = SmallMaxSize
    /\ chunk.len < LargeMaxSize

\* the help of -small-chunks: "change to a min size 512 KiB, max size 16 MiB
\* and and average of 4MiB"
SmallChunksHelp ==
    [minSize |-> 512 * kiB, maxSize |-> 16 * miB, average |-> 4 * miB]

\* the help of -large-chunks: "change to a min size 1 MiB, max size 32 MiB
\* and and average of 8MiB"
LargeChunksHelp ==
    [minSize |-> 1 * miB, maxSize |-> 32 * miB, average |-> 8 * miB]

\* SetAverageBits(bits): a boundary where the low bits of the fingerprint
\* are zero, one position in 2^bits
Average(bits) == 2 ^ bits

\* what the chunker in use was configured with, in bytes
Configured ==
    [minSize |-> cchunker.minSize, maxSize |-> cchunker.maxSize,
     average |-> Average(cchunker.bits)]

\* C13: the chunker is configured as the flag help says: with -small-chunks
\* alone min 512 KiB, max 16 MiB, average 4 MiB; with neither flag min
\* 512 KiB, max 16 MiB, average 4 MiB; with -large-chunks alone min 1 MiB,
\* max 32 MiB, average 8 MiB.
C13_BoundariesAsDocumented ==
    ChunkerBuilt =>
        /\ (smallChunks /\ ~largeChunks) => Configured = SmallChunksHelp
        /\ (~smallChunks /\ ~largeChunks) =>
              Configured = [minSize |-> 512 * kiB, maxSize |-> 16 * miB,
                            average |-> 4 * miB]
        /\ (~smallChunks /\ largeChunks) => Configured = LargeChunksHelp

-----------------------------------------------------------------------------
(* Runs without a processor command *)

\* neither -new-polynomial nor -check-polynomial, and no command
NoCommand == ~newPolynomial /\ ~checkPolynomial /\ cmdArgs = <<>>

\* C14: in both commands a run with neither polynomial action and no
\* processor command goes from main to failed (exit status 1, after the usage
\* text on os.Stderr) and nowhere else; nothing was read through a chunker,
\* no chunk was returned, no processor was started, os.Stdout is empty.
C14_NoCommandAborts ==
    /\ [](  NoCommand =>
            /\ pc \in {"main", "failed"}
            /\ (pc = "failed" => stderr = <<"usage">>)
            /\ stdout = <<>>
            /\ cchunker.pos = 0 /\ cchunker.made = 0
            /\ chunk = NoChunk
            /\ nChunks = 0
            /\ dispatched = <<>> /\ exited = <<>> /\ running = {}
            /\ summaryData = 0 /\ heap = <<>> )
    /\ [][ (NoCommand /\ pc = "main") => pc' = "failed" ]_vars

\* multicchunker with data on stdin and no command has failed
C14_Witness ==
    /\ NoCommand
    /\ mode = "reduce"
    /\ pc = "failed"
    /\ stdin # <<>>
    /\ stderr = <<"usage">>

-----------------------------------------------------------------------------
(* What the processors read *)

\* number of bytes fed to the first k processors started in this pass
RECURSIVE FedLen(_)
FedLen(k) == IF k = 0 THEN 0 ELSE FedLen(k - 1) + dispatched[k].chunk.len

\* the chunker reads os.Stdin: cchunker, or level 0 of multicchunker
OverStdin == ChunkerBuilt /\ cchunker.src = 0 /\ iteration = 0

\* C15: the stdin of the k-th processor started over os.Stdin is the k-th
\* chunk: the bytes of os.Stdin from where the stdin of the one before ends,
\* at least one byte, inside the stream.  What has been fed is what the
\* chunker has returned, less the chunk waiting to be dispatched; when the
\* pass over os.Stdin has ended every byte of os.Stdin has been fed to one
\* processor.
C15_ChunksReconstructStdin ==
    OverStdin =>
        LET n == Len(dispatched) IN
        /\ \A k \in 1..n :
              /\ dispatched[k].chunk.level = 0
              /\ dispatched[k].chunk.off = FedLen(k - 1)
              /\ dispatched[k].chunk.len >= 1
              /\ FedLen(k) <= StreamLen(stdin)
        /\ (pc = "run" =>
               chunk.off = FedLen(n) /\ chunk.off + chunk.len = cchunker.pos)
        /\ (pc \in {"next", "wait", "levelend", "done"} =>
               FedLen(n) = cchunker.pos)
        /\ (pc \in {"levelend", "done"} => FedLen(n) = StreamLen(stdin))

\* cchunker is done after a chunk of maximum size and the chunk of what is
\* left
C15_Witness ==
    /\ OverStdin
    /\ mode = "single" /\ pc = "done"
    /\ Len(dispatched) = 2
    /\ dispatched[1].chunk.len = cchunker.maxSize
    /\ FedLen(2) = StreamLen(stdin)

-----------------------------------------------------------------------------
(* Failure of the single level driver *)

\* stream s begins with stream t
IsPrefix(t, s) == Len(t) <= Len(s) /\ \A i \in 1..Len(t) : s[i] = t[i]

\* C16: in cchunker, when the processor of chunk k cannot be started or
\* exits with a status other than 0, main has failed (exit status 1) with
\* os.Stdout holding, in order, what the processors of chunks 1..k-1 wrote
\* (and what the k-th wrote before it exited); chunk k was given to one
\* processor at most, and no chunk after it was taken from the chunker.
\* Nothing written to os.Stdout is taken back, a processor that exits with a
\* status other than 0 is followed by exit, and failed is final.
C16_SingleFailureKeepsOutput ==
    /\ [](  ( /\ mode = "single" /\ pc = "failed"
              /\ LastError = "error running chunk processing command" ) =>
            LET k == cchunker.made IN
            /\ k >= 1
            /\ chunk.off + chunk.len = cchunker.pos
            /\ Len(dispatched) \in {k - 1, k}
            /\ Len(exited) = Len(dispatched)
            /\ Len(stdout) = Len(exited)
            /\ running = {}
            /\ \A j \in 1..Len(exited) :
                  /\ stdout[j] = exited[j].out
                  /\ stdout[j].chunk = dispatched[j].chunk
                  /\ exited[j].pid = j
                  /\ (j < k => exited[j].status = 0)
                  /\ (j > 1 => dispatched[j].chunk.off
                                   > dispatched[j - 1].chunk.off)
            /\ (Len(exited) = k => exited[k].status # 0 /\ dispatched[k].chunk = chunk) )
    /\ [][ mode = "single" =>
             /\ IsPrefix(stdout, stdout')
             /\ pc # "failed"
             /\ (pc = "wait" =>
                    (pc' = "failed" <=> exited'[Len(exited')].status # 0)) ]_vars

\* the processor of the first chunk wrote a line, the one of the second
\* chunk wrote a line and exited 2
C16_Witness ==
    /\ mode = "single" /\ pc = "failed"
    /\ Len(exited) = 2
    /\ exited[1].status = 0 /\ exited[2].status = 2
    /\ stdout[1].len = 8
    /\ Len(stdout) = 2

-----------------------------------------------------------------------------
(* The two drivers over os.Stdin *)

\* the chunks a chunker in state c over os.Stdin returns until io.EOF
RECURSIVE ChunksOf(_)
ChunksOf(c) ==
    LET rest == StreamLen(stdin) - c.pos IN
    IF rest = 0 THEN <<>>
    ELSE LET l == CHOOSE x \in NextLens(c, rest, c.made) : TRUE IN
         <<[level |-> 0, off |-> c.pos, len |-> l]>>
             \o ChunksOf([c EXCEPT !.pos = @ + l, !.made = @ + 1])

\* the chunks cchunker cuts os.Stdin into with this run's flags
SingleChunks ==
    ChunksOf(NewWithBoundaries(0, polynomialInt,
                               SingleProfile(smallChunks, largeChunks)))

\* C17: what multicchunker dispatches at level 0 is what cchunker
\* dispatches for the same os.Stdin and flags: in both commands the k-th
\* processor started over os.Stdin has the k-th chunk of SingleChunks on its
\* stdin and runs the same command; when the pass has ended there is one per
\* chunk.  The processor's stdout is summaryLine in multicchunker and
\* os.Stdout in cchunker.
C17_LevelZeroIsSingleLevel ==
    OverStdin =>
        /\ Len(dispatched) <= Len(SingleChunks)
        /\ \A k \in 1..Len(dispatched) :
              /\ dispatched[k].chunk = SingleChunks[k]
              /\ dispatched[k].argv = Command(cmdArgs)
              /\ dispatched[k].out =
                    IF mode = "reduce" THEN "capture" ELSE "inherit"
        /\ (pc \in {"levelend", "done"} =>
               Len(dispatched) = Len(SingleChunks))
        /\ cchunker.pol = polynomialInt
        /\ Boundaries = <<SingleProfile(smallChunks, largeChunks).minSize,
                          SingleProfile(smallChunks, largeChunks).maxSize,
                          SingleProfile(smallChunks, largeChunks).bits>>

\* level 0 of multicchunker -large-chunks has ended: a chunk cut at a
\* content defined boundary and the chunk of what is left
C17_Witness ==
    /\ OverStdin
    /\ mode = "reduce" /\ pc = "levelend"
    /\ largeChunks /\ ~smallChunks
    /\ Len(dispatched) = 2
    /\ dispatched[1].chunk.len = LargeMinSize
    /\ SingleChunks = <<dispatched[1].chunk, dispatched[2].chunk>>

-----------------------------------------------------------------------------
(* Ownership of the summary buffers *)

\* C18: inside the reduction loop the buffer summaryData points to is not
\* the one input reads, and a chunker constructed in this level reads input.
\* A step changes the bytes of one buffer at most: it appends to the buffer
\* that is summaryData.  The bytes of the buffer that is the input stay as
\* they were handed on.  At the end of a level that goes on, the summary
\* buffer becomes the input with its bytes, and summaryData is another
\* buffer, which is empty.
C18_SummaryNotShared ==
    /\ [](  InReduction =>
            /\ summaryData # input
            /\ summaryData \in DOMAIN heap
            /\ (input # 0 => input \in DOMAIN heap)
            /\ (pc \in {"next", "run", "wait", "levelend"} =>
                   cchunker.src = input) )
    /\ [][ InReduction =>
             /\ (input' = input /\ input # 0) => heap'[input] = heap[input]
             /\ (summaryData' = summaryData) =>
                    IsPrefix(heap[summaryData], heap'[summaryData])
             /\ (summaryData' # summaryData) =>
                    /\ pc = "levelend" /\ pc' = "levelstart"
                    /\ input' = summaryData
                    /\ heap'[input'] = heap[summaryData]
                    /\ summaryData' # input'
                    /\ heap'[summaryData'] = <<>>
             /\ (input' # input) => summaryData' # summaryData ]_vars

\* in the second level an output has been appended to the summary while
\* the first summary is the input
C18_Witness ==
    /\ InReduction
    /\ iteration = 1
    /\ pc = "next"
    /\ Len(heap[summaryData]) = 2
    /\ heap[summaryData][2].len = 8
    /\ Len(heap[input]) = 3

-----------------------------------------------------------------------------
(* What stays the same from level to level *)

\* polynomial, minimum size, maximum size and average bits of the chunker
Parameters == <<cchunker.pol, cchunker.minSize, cchunker.maxSize, cchunker.bits>>

\* C19: in multicchunker the flags and the command are never assigned; the
\* chunker a level past the first constructs has the polynomial, minimum
\* size, maximum size and average bits of the chunker of the level before,
\* which are those of level 0; every processor of every level is started
\* with the same argv, the command given.
C19_SameParametersEveryLevel ==
    /\ [](  (mode = "reduce" /\ ChunkerBuilt) =>
            /\ Parameters = <<polynomialInt,
                              Profile(smallChunks, largeChunks).minSize,
                              Profile(smallChunks, largeChunks).maxSize,
                              Profile(smallChunks, largeChunks).bits>>
            /\ \A k \in 1..Len(dispatched) :
                  /\ dispatched[k].argv = cmdArgs
                  /\ dispatched[k].level = iteration
            /\ \A p \in running : p.argv = cmdArgs )
    /\ [][ mode = "reduce" =>
             /\ flags' = flags
             /\ (pc = "levelstart" /\ iteration >= 1) =>
                    /\ Parameters' = Parameters
                    /\ cchunker'.src = input
                    /\ cchunker'.pos = 0 ]_vars

\* the third level of multicchunker -large-chunks with a polynomial given
\* and a command of two words runs a processor
C19_Witness ==
    /\ mode = "reduce"
    /\ iteration = 2
    /\ pc = "wait"
    /\ largeChunks /\ ~smallChunks
    /\ polynomialInt = "given"
    /\ cmdArgs = <<"proc", "arg">>
    /\ \E p \in running : p.level = 2 /\ p.argv = <<"proc", "arg">>

-----------------------------------------------------------------------------
(* Levels without chunks *)

\* the bytes of stream s are those of its first piece
OnlyFirstPiece(s) == StreamLen(s) = s[1].len

\* a level has ended with no chunk only at level 0 with nothing on
\* os.Stdin and no processor started; the input of a later level begins
\* with the iteration line of the level before, and the level ends with one
\* chunk at least
EmptyLevelOnlyAtZero ==
    /\ (pc \in {"levelend", "done"} /\ nChunks = 0) =>
          /\ iteration = 0
          /\ stdin = <<>>
          /\ dispatched = <<>> /\ exited = <<>>
    /\ iteration >= 1 =>
          /\ heap[input][1] = IterationLine(iteration - 1)
          /\ StreamLen(heap[input]) >= 2
          /\ (pc \in {"levelend", "done"} => nChunks >= 1)

\* C20 as stated: EmptyLevelOnlyAtZero, and the output of a run that is
\* done holds bytes written by a processor unless os.Stdin was empty, when
\* it is the line "0".
C20_NoOutputOnlyForEmptyInput ==
    InReduction =>
        /\ EmptyLevelOnlyAtZero
        /\ pc = "done" =>
              /\ OnlyFirstPiece(stdout) <=> stdin = <<>>
              /\ stdin = <<>> => stdout = <<TextPiece(<<"0", "\n">>)>>

\* C20 amended: EmptyLevelOnlyAtZero, and the output of a run that is done
\* is the iteration line alone if os.Stdin was empty (the line "0", no
\* processor started), and otherwise the iteration line followed by what
\* the one processor of the last level wrote, which may be nothing.
C20_NoProcessorOnlyForEmptyInput ==
    InReduction =>
        /\ EmptyLevelOnlyAtZero
        /\ pc = "done" =>
              /\ Len(stdout) = 1 <=> stdin = <<>>
              /\ stdin = <<>> =>
                    /\ stdout = <<TextPiece(<<"0", "\n">>)>>
                    /\ iteration = 0 /\ dispatched = <<>>
              /\ stdin # <<>> =>
                    /\ Len(stdout) = 2
                    /\ Len(dispatched) = 1
                    /\ stdout[2] = exited[1].out
                    /\ (OnlyFirstPiece(stdout) <=> exited[1].out.len = 0)

\* a run of two levels is done; the processor of the last level wrote
\* nothing
C20_Witness ==
    /\ InReduction /\ pc = "done"
    /\ iteration = 1
    /\ nChunks = 1
    /\ stdin # <<>>
    /\ stdout[2].len = 0
    /\ OnlyFirstPiece(stdout)

====
